---- MODULE Spec2Model ----
(***************************************************************************)
(* Locale session manager and translation resolver of src/src/i18n/react.ts *)
(*                                                                         *)
(* A JavaScript string is modelled as a sequence of one-character strings, *)
(* so that startsWith, slice, split, join and the two regular-expression   *)
(* replacements of getLocalizedPath are computed character by character.   *)
(* Locale tags ('en' | 'ar') and localStorage values are atomic strings.   *)
(***************************************************************************)
EXTENDS Integers, Sequences, FiniteSets, TLC

(* ----------------------------- bounds ---------------------------------- *)
\* longest path string drawn as an input of the pure path functions
MaxPathLen == 5
\* longest window.location.pathname a session starts from; /ar/ar, the
\* shortest URL whose locale-independent path starts with 'ar', has 6 characters
MaxUrlLen == 6
\* longest dotted translation key
MaxKeyLen == 3
\* longest pathname a chain of page loads followed to its end starts from
MaxChainUrlLen == 4
\* page loads in a row that redirect before the model stops following the chain
MaxRedirects == 3
\* callers of loadTranslations whose calls may overlap
MaxCallers == 2

(* --------------------------- string helpers ---------------------------- *)
\* characters a path is built from: the separator and two letters, enough to
\* spell the segment 'ar' and segments that are not 'ar' (a, r, ra, ara, ...)
PathChars == {"/", "a", "r"}

\* all strings over alphabet S of length at most n
RECURSIVE StringsUpTo(_, _)
StringsUpTo(S, n) ==
  IF n = 0 THEN {<<>>}
  ELSE LET shorter == StringsUpTo(S, n - 1)
       IN  shorter \cup {Append(s, c) : s \in {t \in shorter : Len(t) = n - 1}, c \in S}

\* String.prototype.split(sep) for a one-character separator: "" splits to
\* [""], "/a" to ["", "a"], "a/" to ["a", ""]
RECURSIVE SplitFrom(_, _, _)
SplitFrom(s, sep, cur) ==
  IF s = <<>> THEN <<cur>>
  ELSE IF Head(s) = sep THEN <<cur>> \o SplitFrom(Tail(s), sep, <<>>)
  ELSE SplitFrom(Tail(s), sep, Append(cur, Head(s)))

Split(s, sep) == SplitFrom(s, sep, <<>>)

\* Array.prototype.filter(Boolean) on an array of strings: drops the empty ones
FilterBoolean(segs) == SelectSeq(segs, LAMBDA x : x # <<>>)

\* Array.prototype.join(sep)
RECURSIVE Join(_, _)
Join(segs, sep) ==
  IF segs = <<>> THEN <<>>
  ELSE IF Len(segs) = 1 THEN segs[1]
  ELSE segs[1] \o <<sep>> \o Join(Tail(segs), sep)

\* s.replace(/\/+/g, '/'): every run of slashes becomes one slash
RECURSIVE CollapseSlashes(_)
CollapseSlashes(s) ==
  IF Len(s) < 2 THEN s
  ELSE IF s[1] = "/" /\ s[2] = "/" THEN CollapseSlashes(Tail(s))
  ELSE <<s[1]>> \o CollapseSlashes(Tail(s))

\* s.replace(/\/$/, ''): one slash at the very end is removed
StripTrailingSlash(s) ==
  IF Len(s) > 0 /\ s[Len(s)] = "/" THEN SubSeq(s, 1, Len(s) - 1) ELSE s

\* the string spelling of a locale tag, as it appears in a URL segment
TagString(locale) == IF locale = "ar" THEN <<"a", "r">> ELSE <<"e", "n">>

(* ------------------------- locale / path functions --------------------- *)
defaultLocale == "en"
locales == {"en", "ar"}

\* variant: the toggle always targets the alternate locale
getOppositeLocale_AlwaysAr(currentLocale) == "ar"

getOppositeLocale(currentLocale) == IF currentLocale = "en" THEN "ar" ELSE "en"

\* pathname.split('/').filter(Boolean)
Segments(pathname) == FilterBoolean(Split(pathname, "/"))

getLocaleFromPath(pathname) ==
  LET segments == Segments(pathname)
  IN  IF Len(segments) > 0 /\ segments[1] = TagString("ar") THEN "ar" ELSE defaultLocale

\* LocaleManager.getCurrentPath, as a function of window.location.pathname
CurrentPathOf(pathname) ==
  LET segments == Segments(pathname)
      rest == IF Len(segments) > 0 /\ segments[1] = TagString("ar")
              THEN Tail(segments) ELSE segments
  IN  IF Len(rest) > 0 THEN Join(rest, "/") ELSE <<>>

\* variant: a path that already starts with 'ar/' is not prefixed again
getLocalizedPath_NoDoublePrefix(locale, path) ==
  LET cleanPath == IF Len(path) > 0 /\ path[1] = "/" THEN Tail(path) ELSE path
      prefixed == Len(cleanPath) >= 3 /\ SubSeq(cleanPath, 1, 3) = <<"a", "r", "/">>
      arPath == StripTrailingSlash(CollapseSlashes(
                  IF prefixed THEN <<"/">> \o cleanPath
                  ELSE <<"/", "a", "r", "/">> \o cleanPath))
      enPath == StripTrailingSlash(CollapseSlashes(<<"/">> \o cleanPath))
  IN  IF locale = "ar"
      THEN (IF arPath = <<>> THEN <<"/", "a", "r">> ELSE arPath)
      ELSE (IF enPath = <<>> THEN <<"/">> ELSE enPath)

\* variant: the trailing slash is kept
getLocalizedPath_KeepTrailingSlash(locale, path) ==
  LET cleanPath == IF Len(path) > 0 /\ path[1] = "/" THEN Tail(path) ELSE path
      arPath == CollapseSlashes(<<"/", "a", "r", "/">> \o cleanPath)
      enPath == CollapseSlashes(<<"/">> \o cleanPath)
  IN  IF locale = "ar" THEN arPath ELSE enPath

\* variant: the two branches are exchanged
getLocalizedPath_Swapped(locale, path) ==
  LET cleanPath == IF Len(path) > 0 /\ path[1] = "/" THEN Tail(path) ELSE path
      arPath == StripTrailingSlash(CollapseSlashes(<<"/", "a", "r", "/">> \o cleanPath))
      enPath == StripTrailingSlash(CollapseSlashes(<<"/">> \o cleanPath))
  IN  IF locale # "ar"
      THEN (IF arPath = <<>> THEN <<"/", "a", "r">> ELSE arPath)
      ELSE (IF enPath = <<>> THEN <<"/">> ELSE enPath)

getLocalizedPath(locale, path) ==
  LET cleanPath == IF Len(path) > 0 /\ path[1] = "/" THEN Tail(path) ELSE path
      arPath == StripTrailingSlash(CollapseSlashes(<<"/", "a", "r", "/">> \o cleanPath))
      enPath == StripTrailingSlash(CollapseSlashes(<<"/">> \o cleanPath))
  IN  IF locale = "ar"
      THEN (IF arPath = <<>> THEN <<"/", "a", "r">> ELSE arPath)
      ELSE (IF enPath = <<>> THEN <<"/">> ELSE enPath)

\* the locale-independent path the claims call normalize(P): the non-empty
\* segments of P joined by '/'
Normalize(P) == Join(FilterBoolean(Split(P, "/")), "/")

(* ------------------------------- state --------------------------------- *)
VARIABLES
  \* pure path functions: the input, the call made on it and its results
  argPath,        \* path argument P
  argLocale,      \* locale argument of the last getLocalizedPath call
  pathPc,         \* "input" | "localized" | "parsed"
  locOut,         \* result of getLocalizedPath(argLocale, argPath)
  outLocale,      \* getLocaleFromPath(locOut)
  outPath,        \* getCurrentPath with window.location.pathname = locOut
  \* browser session
  hasWindow,      \* typeof window !== 'undefined'
  storage,        \* localStorage item 'preferred-locale' (NoItem when unset)
  pathname,       \* window.location.pathname
  phase,          \* "Start": page loaded, initializeLocalePreference not run yet; "Idle"
  ev,             \* the last operation of the session and what it saw
  userSwitch,     \* the last user-initiated switchLocale, if any
  autoRedirects,  \* redirects made by initializeLocalePreference since the last user action
  toggles,        \* the run of consecutive toggleLocale invocations the session is in
  \* translation resolver
  src,            \* the content of ../locales/<locale>.json, per locale
  cache,          \* translationCache: Map<Locale, Translations>
  argKey,         \* the dotted key callers translate
  argFallback,    \* the fallback argument callers pass (Undefined when omitted)
  call            \* per caller: the call in progress and what earlier calls returned

pathVars == <<argPath, argLocale, pathPc, locOut, outLocale, outPath>>
navVars ==
  <<hasWindow, storage, pathname, phase, ev, userSwitch, autoRedirects, toggles>>
trVars == <<src, cache, argKey, argFallback, call>>
vars == <<pathVars, navVars, trVars>>

(* ------------------------ pure path functions -------------------------- *)

\* getLocalizedPath(locale, argPath) for either locale
CallGetLocalizedPath ==
  /\ pathPc = "input"
  /\ \E locale \in locales :
       /\ argLocale' = locale
       /\ locOut' = getLocalizedPath(locale, argPath)
  /\ pathPc' = "localized"
  /\ UNCHANGED <<argPath, outLocale, outPath>>
  /\ UNCHANGED <<navVars, trVars>>

\* the browser is at the localized URL: derive its locale and strip its prefix
CallParseLocalized ==
  /\ pathPc = "localized"
  /\ outLocale' = getLocaleFromPath(locOut)
  /\ outPath' = CurrentPathOf(locOut)
  /\ pathPc' = "parsed"
  /\ UNCHANGED <<argPath, argLocale, locOut>>
  /\ UNCHANGED <<navVars, trVars>>

(* --------------------------- LocaleManager ----------------------------- *)
NoItem == "<null>"
\* what localStorage may hold under the key: nothing, a known tag, anything else
StorageValues == {NoItem, "en", "ar", "fr"}

\* variant: the stored value is returned without validation
getPreferredLocale_Unvalidated(win, store, readThrows) ==
  IF ~win THEN defaultLocale
  ELSE IF readThrows THEN defaultLocale
  ELSE store

\* LocaleManager.getPreferredLocale; readThrows: localStorage.getItem throws
getPreferredLocale(win, store, readThrows) ==
  IF ~win THEN defaultLocale
  ELSE IF readThrows THEN defaultLocale
  ELSE IF store = "en" \/ store = "ar" THEN store ELSE defaultLocale

\* LocaleManager.setPreferredLocale: the value of the item afterwards;
\* writeThrows: localStorage.setItem throws (caught, console.warn)
setPreferredLocale(win, store, locale, writeThrows) ==
  IF ~win THEN store
  ELSE IF writeThrows THEN store
  ELSE locale

\* LocaleManager.getCurrentLocale
getCurrentLocale(win, path) ==
  IF ~win THEN defaultLocale
  ELSE LET segments == Segments(path)
       IN  IF Len(segments) > 0 /\ segments[1] = TagString("ar") THEN "ar" ELSE defaultLocale

\* LocaleManager.getCurrentPath
getCurrentPath(win, path) == IF ~win THEN <<>> ELSE CurrentPathOf(path)

\* window.location.href = href: the pathname of the page that loads next.
\* A path-absolute reference replaces the pathname; one starting with '//'
\* is scheme-relative (its first segment is a host); any other is resolved
\* against the directory of the current pathname.
RECURSIVE DropAuthority(_)
DropAuthority(s) ==
  IF s = <<>> THEN <<"/">>
  ELSE IF Head(s) = "/" THEN s
  ELSE DropAuthority(Tail(s))

RECURSIVE Directory(_)
Directory(path) ==
  IF path = <<>> THEN <<"/">>
  ELSE IF path[Len(path)] = "/" THEN path
  ELSE Directory(SubSeq(path, 1, Len(path) - 1))

ResolveHref(current, href) ==
  IF href = <<>> THEN current
  ELSE IF Len(href) >= 2 /\ href[1] = "/" /\ href[2] = "/" THEN DropAuthority(Tail(Tail(href)))
  ELSE IF href[1] = "/" THEN href
  ELSE Directory(current) \o href

NoEvent ==
  [op |-> "none", locale |-> defaultLocale, prePath |-> <<>>, preStorage |-> NoItem,
   readThrew |-> FALSE, writeThrew |-> FALSE, redirected |-> FALSE, target |-> <<>>]

NoSwitch == [active |-> FALSE, locale |-> defaultLocale, writeFailed |-> FALSE]

\* no toggleLocale yet, or the last user action was not a toggleLocale
NoToggles == [count |-> 0, origin |-> <<>>, writeOk |-> TRUE, between |-> 0]

\* the run of toggles after one more toggleLocale on the current page: the
\* second toggle of a run keeps the URL the run started from and records the
\* redirects initializeLocalePreference made since the first; any other
\* toggle starts a run at the current URL
NextToggles(writeThrows) ==
  IF toggles.count = 1
  THEN [toggles EXCEPT !.count = 2, !.writeOk = @ /\ ~writeThrows,
                       !.between = autoRedirects]
  ELSE [count |-> 1, origin |-> pathname, writeOk |-> ~writeThrows, between |-> 0]

\* LocaleManager.switchLocale(targetLocale, currentPath) in a browser:
\* the storage and pathname it leaves behind; the navigation restarts the page
SwitchLocale(targetLocale, currentPath, writeThrows) ==
  /\ storage' = setPreferredLocale(hasWindow, storage, targetLocale, writeThrows)
  /\ pathname' = ResolveHref(pathname, getLocalizedPath(targetLocale, currentPath))
  /\ phase' = "Start"

\* variant: reconciles in both directions, also towards the default locale
ShouldRedirect_Symmetric(preferredLocale, currentLocale) ==
  preferredLocale # currentLocale

\* the condition under which initializeLocalePreference redirects
ShouldRedirect(preferredLocale, currentLocale) ==
  preferredLocale # currentLocale /\ preferredLocale # defaultLocale

\* initializeLocalePreference(), run once by each page load
InitializeLocalePreference ==
  /\ phase = "Start"
  /\ autoRedirects < MaxRedirects
  /\ \E readThrows \in BOOLEAN, writeThrows \in BOOLEAN :
       LET preferredLocale == getPreferredLocale(hasWindow, storage, readThrows)
           currentLocale == getCurrentLocale(hasWindow, pathname)
           currentPath == getCurrentPath(hasWindow, pathname)
           redirect == hasWindow /\ ShouldRedirect(preferredLocale, currentLocale)
       IN  /\ IF redirect
              THEN /\ SwitchLocale(preferredLocale, currentPath, writeThrows)
                   /\ autoRedirects' = autoRedirects + 1
              ELSE /\ phase' = "Idle"
                   /\ UNCHANGED <<storage, pathname, autoRedirects>>
           /\ ev' = [op |-> "init", locale |-> preferredLocale, prePath |-> pathname,
                     preStorage |-> storage, readThrew |-> hasWindow /\ readThrows,
                     writeThrew |-> redirect /\ writeThrows, redirected |-> redirect,
                     target |-> IF redirect THEN getLocalizedPath(preferredLocale, currentPath)
                                ELSE <<>>]
  /\ UNCHANGED <<hasWindow, userSwitch, toggles>>
  /\ UNCHANGED <<pathVars, trVars>>

\* what a user-initiated LocaleManager.switchLocale(targetLocale, currentPath)
\* from the current page leaves in the record of the last operation
SwitchEvent(targetLocale, writeThrows) ==
  [op |-> "switch", locale |-> targetLocale, prePath |-> pathname,
   preStorage |-> storage, readThrew |-> FALSE,
   writeThrew |-> hasWindow /\ writeThrows, redirected |-> hasWindow,
   target |-> IF hasWindow
              THEN getLocalizedPath(targetLocale, getCurrentPath(hasWindow, pathname))
              ELSE <<>>]

\* useLocale().toggleLocale on an idle page
ToggleLocale ==
  /\ phase = "Idle"
  /\ \E writeThrows \in BOOLEAN :
       LET targetLocale == getOppositeLocale(getCurrentLocale(hasWindow, pathname))
       IN  /\ IF hasWindow
              THEN SwitchLocale(targetLocale, getCurrentPath(hasWindow, pathname), writeThrows)
              ELSE UNCHANGED <<storage, pathname, phase>>
           /\ ev' = SwitchEvent(targetLocale, writeThrows)
           /\ userSwitch' = [active |-> hasWindow, locale |-> targetLocale,
                             writeFailed |-> hasWindow /\ writeThrows]
           /\ toggles' = NextToggles(writeThrows)
  /\ autoRedirects' = 0
  /\ UNCHANGED hasWindow
  /\ UNCHANGED <<pathVars, trVars>>

\* useLocale().switchToLocale(locale) on an idle page
SwitchToLocale ==
  /\ phase = "Idle"
  /\ \E targetLocale \in locales, writeThrows \in BOOLEAN :
       /\ IF hasWindow
          THEN SwitchLocale(targetLocale, getCurrentPath(hasWindow, pathname), writeThrows)
          ELSE UNCHANGED <<storage, pathname, phase>>
       /\ ev' = SwitchEvent(targetLocale, writeThrows)
       /\ userSwitch' = [active |-> hasWindow, locale |-> targetLocale,
                         writeFailed |-> hasWindow /\ writeThrows]
  /\ autoRedirects' = 0
  /\ toggles' = NoToggles
  /\ UNCHANGED hasWindow
  /\ UNCHANGED <<pathVars, trVars>>

\* a call of LocaleManager.getPreferredLocale() on its own
CallGetPreferredLocale ==
  /\ \E readThrows \in BOOLEAN :
       ev' = [NoEvent EXCEPT !.op = "getPreferred",
                             !.locale = getPreferredLocale(hasWindow, storage, readThrows),
                             !.prePath = pathname, !.preStorage = storage,
                             !.readThrew = hasWindow /\ readThrows]
  /\ UNCHANGED <<hasWindow, storage, pathname, phase, userSwitch, autoRedirects, toggles>>
  /\ UNCHANGED <<pathVars, trVars>>

(* ------------------------ translation resolver ------------------------- *)
\* JavaScript values a translation table can hold or a lookup can produce
Undefined == [t |-> "undefined"]
Str(s) == [t |-> "string", v |-> s]
Obj(f) == [t |-> "object", v |-> f]
EmptyTable == <<>>

\* truthiness of a value: undefined and '' are falsy, objects and other strings truthy
Truthy(x) == x.t = "object" \/ (x.t = "string" /\ x.v # <<>>)

\* a || b on an optional string a and a string b
OrElse(a, b) == IF Truthy(a) THEN a.v ELSE b

\* one step of the reduce in getNestedValue: current[key] when current is an object
NestedStep(current, key) ==
  IF Truthy(current) /\ current.t = "object"
  THEN (IF key \in DOMAIN current.v THEN current.v[key] ELSE Undefined)
  ELSE Undefined

RECURSIVE Reduce(_, _)
Reduce(current, keys) ==
  IF keys = <<>> THEN current ELSE Reduce(NestedStep(current, Head(keys)), Tail(keys))

\* getNestedValue(obj, path): path.split('.').reduce(..., obj)
getNestedValue(obj, path) == Reduce(Obj(obj), Split(path, "."))

\* variant: storing an entry drops the other entries
CacheSet_Replace(c, locale, data) == [l \in {locale} |-> data]

\* translationCache.set(locale, data)
CacheSet(c, locale, data) ==
  [l \in (DOMAIN c) \cup {locale} |-> IF l = locale THEN data ELSE c[l]]

\* loadTranslations(locale) up to its first suspension: the cached table, or
\* the dynamic import of the locale's source
LoadStart(c, locale) ==
  IF locale \in DOMAIN c
  THEN [kind |-> "value", table |-> c[locale], locale |-> locale]
  ELSE [kind |-> "fetch", table |-> EmptyTable, locale |-> locale]

\* variant: a failed load returns the empty table for every locale
LoadFailed_NoDefault(c, locale) ==
  [kind |-> "value", table |-> EmptyTable, locale |-> locale]

\* the catch block of loadTranslations(locale)
LoadFailed(c, locale) ==
  IF locale # defaultLocale
  THEN LoadStart(c, defaultLocale)
  ELSE [kind |-> "value", table |-> EmptyTable, locale |-> locale]

\* variant: the fallback argument is ignored
tSync_IgnoresFallback(key, locale, translations, fallback) ==
  LET translation == getNestedValue(translations, key)
  IN  IF Truthy(translation) /\ translation.t = "string"
      THEN translation.v
      ELSE key

\* tSync(key, locale, translations, fallback)
tSync(key, locale, translations, fallback) ==
  LET translation == getNestedValue(translations, key)
  IN  IF Truthy(translation) /\ translation.t = "string"
      THEN translation.v
      ELSE OrElse(fallback, key)

\* variant: the default locale's table is never consulted
tAfterLocale_NoDefault(key, locale, translations, fallback) ==
  LET translation == getNestedValue(translations, key)
  IN  IF Truthy(translation) /\ translation.t = "string"
      THEN [kind |-> "return", str |-> translation.v]
      ELSE [kind |-> "return", str |-> OrElse(fallback, key)]

\* t(key, locale, fallback) once loadTranslations(locale) has resolved to
\* translations: the string it returns, or the need for the default table
tAfterLocale(key, locale, translations, fallback) ==
  LET translation == getNestedValue(translations, key)
  IN  IF Truthy(translation) /\ translation.t = "string"
      THEN [kind |-> "return", str |-> translation.v]
      ELSE IF locale # defaultLocale
      THEN [kind |-> "default", str |-> <<>>]
      ELSE [kind |-> "return", str |-> OrElse(fallback, key)]

\* t(key, locale, fallback) once loadTranslations(defaultLocale) has resolved
tAfterDefault(key, defaultTranslations, fallback) ==
  LET defaultTranslation == getNestedValue(defaultTranslations, key)
  IN  IF Truthy(defaultTranslation) /\ defaultTranslation.t = "string"
      THEN defaultTranslation.v
      ELSE OrElse(fallback, key)

KeyChars == {"a", "b", "."}
E1 == <<"E">>
A1 == <<"A">>
\* translation tables a locale's source may hold, with x the locale's prose
SampleTables(x) ==
  { EmptyTable,
    (<<"a">> :> Str(x)) @@ (<<"b">> :> Obj((<<"a">> :> Str(x)) @@ (<<"b">> :> Str(<<>>)))),
    (<<"a">> :> Obj((<<"b">> :> Str(x)) @@ (<<>> :> Str(x)))) @@ (<<"b">> :> Str(x)),
    (<<"a">> :> Str(<<>>)) @@ (<<>> :> Obj(<<>> :> Str(x))) }
\* fallback arguments: omitted, the empty string, some text
SampleFallbacks == {Undefined, Str(<<>>), Str(<<"F">>)}

NoResult == [t |-> "none"]
\* what a finished t or tSync call leaves for comparison with the next one
NoPrev ==
  [op |-> "none", locale |-> defaultLocale, out |-> NoResult, table |-> EmptyTable,
   usedDefault |-> FALSE, failed |-> FALSE]

\* a caller before its first call; role "translator" invokes loadTranslations,
\* t and tSync, role "loader" invokes loadTranslations only
IdleCall(role) ==
  [role |-> role, op |-> "none", locale |-> defaultLocale, pc |-> "idle", stage |-> 0,
   loading |-> defaultLocale, value |-> EmptyTable, hit |-> FALSE, log |-> <<>>,
   result |-> NoResult, table |-> EmptyTable, usedDefault |-> FALSE, failed |-> FALSE,
   prev |-> NoPrev]

OpsOf(role) == IF role = "translator" THEN {"load", "t", "tSync"} ELSE {"load"}

\* the caller receives the table its loadTranslations resolved to
Resolve(c, table) == [c EXCEPT !.pc = "resume", !.value = table]

\* begin loadTranslations(locale) inside call record c, with cache content cch
BeginLoad(c, cch, locale) ==
  LET r == LoadStart(cch, locale)
  IN  IF r.kind = "value" THEN Resolve(c, r.table)
      ELSE [c EXCEPT !.pc = "fetch", !.loading = r.locale]

\* the call record of a call that returned out
Finish(c, out) ==
  [c EXCEPT !.pc = "done", !.result = out, !.stage = 0,
            !.value = EmptyTable, !.loading = defaultLocale,
            !.failed = \E i \in 1..Len(c.log) : ~c.log[i][2]]

\* caller p invokes loadTranslations(locale), t(key, locale, fallback), or
\* loadTranslations(locale) followed by tSync on the table it yields
StartCall(p) ==
  /\ call[p].pc \in {"idle", "done"}
  /\ \E op \in OpsOf(call[p].role), locale \in locales :
       LET c == call[p]
           last == IF c.op \in {"t", "tSync"}
                   THEN [op |-> c.op, locale |-> c.locale, out |-> c.result,
                         table |-> c.table, usedDefault |-> c.usedDefault,
                         failed |-> c.failed]
                   ELSE c.prev
       IN  call' = [call EXCEPT ![p] =
                  BeginLoad([c EXCEPT !.op = op, !.locale = locale, !.stage = 1,
                                      !.log = <<>>, !.result = NoResult,
                                      !.table = EmptyTable, !.usedDefault = FALSE,
                                      !.failed = FALSE, !.prev = last,
                                      !.hit = (locale \in DOMAIN cache)],
                            cache, locale)]
  /\ UNCHANGED <<src, cache, argKey, argFallback>>
  /\ UNCHANGED <<pathVars, navVars>>

\* the dynamic import caller p awaits settles: fulfilled with the source's
\* content (stored in the cache, returned) or rejected (catch block)
FetchSettles(p) ==
  /\ call[p].pc = "fetch"
  /\ \E ok \in BOOLEAN :
       LET c == call[p]
           logged == [c EXCEPT !.log = Append(@, <<c.loading, ok>>)]
       IN  IF ok
           THEN /\ cache' = CacheSet(cache, c.loading, src[c.loading])
                /\ call' = [call EXCEPT ![p] = Resolve(logged, src[c.loading])]
           ELSE /\ cache' = cache
                /\ LET r == LoadFailed(cache, c.loading)
                   IN  call' = [call EXCEPT ![p] =
                                  IF r.kind = "value" THEN Resolve(logged, r.table)
                                  ELSE [logged EXCEPT !.loading = r.locale]]
  /\ UNCHANGED <<src, argKey, argFallback>>
  /\ UNCHANGED <<pathVars, navVars>>

\* caller p resumes after its await of loadTranslations
Resume(p) ==
  /\ call[p].pc = "resume"
  /\ LET c == call[p]
     IN  call' = [call EXCEPT ![p] =
           IF c.op = "load"
           THEN Finish(c, Obj(c.value))
           ELSE IF c.op = "tSync"
           THEN Finish([c EXCEPT !.table = c.value],
                       Str(tSync(argKey, c.locale, c.value, argFallback)))
           ELSE IF c.stage = 1
           THEN LET r == tAfterLocale(argKey, c.locale, c.value, argFallback)
                IN  IF r.kind = "return"
                    THEN Finish([c EXCEPT !.table = c.value], Str(r.str))
                    ELSE BeginLoad([c EXCEPT !.stage = 2, !.table = c.value,
                                             !.usedDefault = TRUE],
                                   cache, defaultLocale)
           ELSE Finish(c, Str(tAfterDefault(argKey, c.value, argFallback)))]
  /\ UNCHANGED <<src, cache, argKey, argFallback>>
  /\ UNCHANGED <<pathVars, navVars>>

StartSome == \E p \in DOMAIN call : StartCall(p)
FetchSome == \E p \in DOMAIN call : FetchSettles(p)
ResumeSome == \E p \in DOMAIN call : Resume(p)

TrNext ==
  \/ StartSome
  \/ FetchSome
  \/ ResumeSome

PathNext ==
  \/ CallGetLocalizedPath
  \/ CallParseLocalized

\* page loads only
ChainNext == InitializeLocalePreference

NavNext ==
  \/ InitializeLocalePreference
  \/ ToggleLocale
  \/ SwitchToLocale
  \/ CallGetPreferredLocale

(* --------------------------- initial states ---------------------------- *)
\* the pure path functions on every path string up to the bound
PathInit ==
  /\ argPath \in StringsUpTo(PathChars, MaxPathLen)
  /\ argLocale = defaultLocale
  /\ pathPc = "input"
  /\ locOut = <<>>
  /\ outLocale = defaultLocale
  /\ outPath = <<>>
  \* the variables this specification leaves alone
  /\ hasWindow = FALSE /\ storage = NoItem /\ pathname = <<"/">> /\ phase = "unused"
  /\ ev = NoEvent /\ userSwitch = NoSwitch /\ autoRedirects = 0
  /\ toggles = NoToggles
  /\ src = [l \in locales |-> EmptyTable] /\ cache = <<>>
  /\ argKey = <<>> /\ argFallback = Undefined /\ call = <<>>

\* a page load in any context, on any pathname up to the bound, any stored item
NavInit ==
  /\ hasWindow \in BOOLEAN
  /\ storage \in StorageValues
  /\ pathname \in {<<"/">> \o s : s \in StringsUpTo(PathChars, MaxUrlLen - 1)}
  /\ phase = "Start"
  /\ ev = NoEvent
  /\ userSwitch = NoSwitch
  /\ autoRedirects = 0
  /\ toggles = NoToggles
  \* the variables this specification leaves alone
  /\ argPath = <<>> /\ argLocale = defaultLocale /\ pathPc = "unused"
  /\ locOut = <<>> /\ outLocale = defaultLocale /\ outPath = <<>>
  /\ src = [l \in locales |-> EmptyTable] /\ cache = <<>>
  /\ argKey = <<>> /\ argFallback = Undefined /\ call = <<>>

\* a page load on any pathname up to the bound of the chains followed to their end
FairInit ==
  /\ hasWindow \in BOOLEAN
  /\ storage \in StorageValues
  /\ pathname \in {<<"/">> \o s : s \in StringsUpTo(PathChars, MaxChainUrlLen - 1)}
  /\ phase = "Start"
  /\ ev = NoEvent
  /\ userSwitch = NoSwitch
  /\ autoRedirects = 0
  /\ toggles = NoToggles
  \* the variables this specification leaves alone
  /\ argPath = <<>> /\ argLocale = defaultLocale /\ pathPc = "unused"
  /\ locOut = <<>> /\ outLocale = defaultLocale /\ outPath = <<>>
  /\ src = [l \in locales |-> EmptyTable] /\ cache = <<>>
  /\ argKey = <<>> /\ argFallback = Undefined /\ call = <<>>

\* one caller translating keys of every shape, every table, every fallback
TrInit ==
  /\ \E te \in SampleTables(E1), ta \in SampleTables(A1) :
       src = [l \in locales |-> IF l = "en" THEN te ELSE ta]
  /\ cache = <<>>
  /\ argKey \in StringsUpTo(KeyChars, MaxKeyLen)
  /\ argFallback \in SampleFallbacks
  /\ call = [p \in {1} |-> IdleCall("translator")]
  \* the variables this specification leaves alone
  /\ argPath = <<>> /\ argLocale = defaultLocale /\ pathPc = "unused"
  /\ locOut = <<>> /\ outLocale = defaultLocale /\ outPath = <<>>
  /\ hasWindow = FALSE /\ storage = NoItem /\ pathname = <<"/">> /\ phase = "unused"
  /\ ev = NoEvent /\ userSwitch = NoSwitch /\ autoRedirects = 0
  /\ toggles = NoToggles

\* several callers of loadTranslations whose calls overlap
CacheInit ==
  /\ \E te \in {EmptyTable, <<"a">> :> Str(E1)}, ta \in {EmptyTable, <<"a">> :> Str(A1)} :
       src = [l \in locales |-> IF l = "en" THEN te ELSE ta]
  /\ cache = <<>>
  /\ argKey = <<"a">>
  /\ argFallback = Undefined
  /\ call = [p \in 1..MaxCallers |-> IdleCall("loader")]
  \* the variables this specification leaves alone
  /\ argPath = <<>> /\ argLocale = defaultLocale /\ pathPc = "unused"
  /\ locOut = <<>> /\ outLocale = defaultLocale /\ outPath = <<>>
  /\ hasWindow = FALSE /\ storage = NoItem /\ pathname = <<"/">> /\ phase = "unused"
  /\ ev = NoEvent /\ userSwitch = NoSwitch /\ autoRedirects = 0
  /\ toggles = NoToggles

PathSpec == PathInit /\ [][PathNext]_vars
Spec == NavInit /\ [][NavNext]_vars
TrSpec == TrInit /\ [][TrNext]_vars
CacheSpec == CacheInit /\ [][TrNext]_vars
\* the chain of page loads from any pathname and any stored item, with no user
\* action: each page load runs initializeLocalePreference when it has loaded
FairSpec == FairInit /\ [][ChainNext]_vars /\ WF_vars(InitializeLocalePreference)

(* ============================== claims ================================= *)
\* the '/ar'-prefixed URL of a locale-independent path
ArUrl(path) == IF path = <<>> THEN <<"/", "a", "r">> ELSE <<"/", "a", "r", "/">> \o path
\* the default locale's URL of a locale-independent path
EnUrl(path) == <<"/">> \o path
\* the first non-empty segment of P is the tag 'ar'
StartsWithAr(P) == Len(Segments(P)) > 0 /\ Segments(P)[1] = <<"a", "r">>

\* C1: in a browser, initializeLocalePreference redirects exactly when the
\* preferred locale read from storage differs from the URL's locale and is
\* not 'en'; the redirect goes to getLocalizedPath(preferred, getCurrentPath());
\* stored 'ar' on an 'en' URL lands on the '/ar'-prefixed path, stored 'en' on
\* an 'ar' URL stays; without a redirect, location and storage are untouched.
C1_RedirectIff ==
  (ev.op = "init" /\ hasWindow) =>
    LET urlLocale == getLocaleFromPath(ev.prePath)
    IN  /\ ev.redirected <=> (ev.locale # urlLocale /\ ev.locale # "en")
        /\ ev.redirected =>
             /\ ev.target = getLocalizedPath(ev.locale, CurrentPathOf(ev.prePath))
             /\ pathname = ev.target
             /\ phase = "Start"
        /\ (ev.preStorage = "ar" /\ ~ev.readThrew /\ urlLocale = "en") =>
             /\ ev.redirected
             /\ pathname = ArUrl(Normalize(ev.prePath))
        /\ (ev.preStorage = "en" /\ urlLocale = "ar") => ~ev.redirected
        /\ ~ev.redirected =>
             /\ pathname = ev.prePath
             /\ storage = ev.preStorage
             /\ phase = "Idle"

C1_Witness ==
  /\ ev.op = "init" /\ hasWindow /\ ev.redirected
  /\ ev.preStorage = "ar" /\ ev.prePath = <<"/", "a", "/", "r">>
  /\ pathname = <<"/", "a", "r", "/", "a", "/", "r">>

\* C2: for every path P, the URL getLocalizedPath('ar', P) has locale 'ar'
\* and stripping its locale prefix gives back the non-empty segments of P
\* joined by '/'.
C2_ArRoundTrip ==
  (pathPc = "parsed" /\ argLocale = "ar") =>
    /\ outLocale = "ar"
    /\ outPath = Normalize(argPath)

C2_Witness ==
  /\ pathPc = "parsed" /\ argLocale = "ar"
  /\ argPath = <<"/", "a", "r", "/", "/">>
  /\ locOut = <<"/", "a", "r", "/", "a", "r">>
  /\ outPath = <<"a", "r">>

\* C3 as stated: for every path P, getLocalizedPath('en', P) is '/' followed
\* by normalize(P), its locale is 'en' and getCurrentPath of it is normalize(P).
C3_Original ==
  (pathPc = "parsed" /\ argLocale = "en") =>
    /\ locOut = EnUrl(Normalize(argPath))
    /\ outLocale = "en"
    /\ outPath = Normalize(argPath)

\* C3 amended: for every path P, getLocalizedPath('en', P) is '/' followed by
\* normalize(P); when the first non-empty segment of P is not 'ar', the
\* locale of that URL is 'en' and getCurrentPath of it is normalize(P).
C3_EnNormalized ==
  /\ (pathPc \in {"localized", "parsed"} /\ argLocale = "en") =>
       locOut = EnUrl(Normalize(argPath))
  /\ (pathPc = "parsed" /\ argLocale = "en" /\ ~StartsWithAr(argPath)) =>
       /\ outLocale = "en"
       /\ outPath = Normalize(argPath)

C3_Witness ==
  /\ pathPc = "parsed" /\ argLocale = "en"
  /\ argPath = <<"/", "/", "r", "a", "/">>
  /\ locOut = <<"/", "r", "a">>
  /\ outPath = <<"r", "a">>

\* C7: getPreferredLocale returns 'en' or 'ar': the stored value when it is
\* exactly one of the two, 'en' when nothing or anything else is stored, when
\* the read throws or outside a browser; storage and location stay as they were.
C7_PreferredLocale ==
  (ev.op = "getPreferred") =>
    /\ ev.locale \in {"en", "ar"}
    /\ ev.locale = IF hasWindow /\ ~ev.readThrew /\ ev.preStorage \in {"en", "ar"}
                   THEN ev.preStorage ELSE "en"
    /\ storage = ev.preStorage
    /\ pathname = ev.prePath

C7_Witness ==
  /\ ev.op = "getPreferred" /\ hasWindow /\ ~ev.readThrew
  /\ ev.preStorage = "fr" /\ ev.locale = "en"

\* C8: after a user's switchLocale(L, path) whose storage write failed, the
\* page loads that follow settle in Idle on a URL whose locale is L, whatever
\* was stored before.
C8_SettlesOnTarget ==
  (phase = "Idle" /\ userSwitch.active /\ userSwitch.writeFailed) =>
    getLocaleFromPath(pathname) = userSwitch.locale

\* C10: a chain of page loads without user action redirects at most once;
\* the load after a redirect finds the URL's locale equal to the stored
\* preference and the locale-independent path unchanged; every page load
\* ends in Idle.
C10_NoRedirectLoop ==
  /\ [](/\ autoRedirects <= 1
        /\ (ev.op = "init" /\ ev.redirected) =>
             /\ getLocaleFromPath(pathname) = storage
             /\ CurrentPathOf(pathname) = CurrentPathOf(ev.prePath))
  /\ [](phase = "Start" => <>(phase = "Idle"))

C10_Witness ==
  /\ phase = "Idle" /\ autoRedirects = 1 /\ ~userSwitch.active
  /\ ev.op = "init" /\ ~ev.redirected
  /\ pathname = <<"/", "a", "r", "/", "a">>

\* ---- translation claims ----
\* the string stored at the segments of a key in a table, if any: walk the
\* table segment by segment; a missing segment, a string met before the last
\* segment, or a table at the last segment is "not found"
RECURSIVE Stored(_, _)
Stored(table, segs) ==
  IF segs = <<>> \/ Head(segs) \notin DOMAIN table THEN Undefined
  ELSE LET x == table[Head(segs)]
       IN  IF Len(segs) = 1 THEN (IF x.t = "string" THEN x ELSE Undefined)
           ELSE IF x.t = "object" THEN Stored(x.v, Tail(segs))
           ELSE Undefined

KeySegs == Split(argKey, ".")
\* caller p's call of op has returned
Returned(p, op) == call[p].pc = "done" /\ call[p].op = op
\* a t call of caller p has returned and none of its imports was rejected
TReturned(p) == Returned(p, "t") /\ ~call[p].failed

\* C4 as stated: t returns the string stored at the key in the locale's
\* table if there is one, else (for 'ar') the one stored in the 'en' table,
\* else the fallback if one was supplied, else the key.
C4_Reference(locale) ==
  LET own == Stored(src[locale], KeySegs)
      def == Stored(src[defaultLocale], KeySegs)
  IN  IF own.t = "string" THEN own.v
      ELSE IF locale # defaultLocale /\ def.t = "string" THEN def.v
      ELSE IF argFallback.t = "string" THEN argFallback.v
      ELSE argKey

C4_Original ==
  \A p \in DOMAIN call :
    TReturned(p) => call[p].result.v = C4_Reference(call[p].locale)

\* C4 amended: the same chain, where a stored empty string counts as not
\* found and an empty fallback counts as not supplied.
C4_AmendedReference(locale) ==
  LET own == Stored(src[locale], KeySegs)
      def == Stored(src[defaultLocale], KeySegs)
  IN  IF own.t = "string" /\ own.v # <<>> THEN own.v
      ELSE IF locale # defaultLocale /\ def.t = "string" /\ def.v # <<>> THEN def.v
      ELSE IF argFallback.t = "string" /\ argFallback.v # <<>> THEN argFallback.v
      ELSE argKey

C4_TranslateChain ==
  \A p \in DOMAIN call :
    TReturned(p) => call[p].result.v = C4_AmendedReference(call[p].locale)

\* key a.b is missing from the 'ar' table and present in the 'en' table
C4_Witness ==
  \E p \in DOMAIN call :
    /\ TReturned(p) /\ call[p].locale = "ar" /\ call[p].usedDefault
    /\ argKey = <<"a", ".", "b">>
    /\ Stored(src["ar"], KeySegs) = Undefined
    /\ call[p].result.v = E1

\* the non-empty string stored at the key in a table, else the non-empty
\* fallback, else the key
LookupOrFallback(table) ==
  LET own == Stored(table, KeySegs)
  IN  IF own.t = "string" /\ own.v # <<>> THEN own.v
      ELSE IF argFallback.t = "string" /\ argFallback.v # <<>> THEN argFallback.v
      ELSE argKey

\* the summary of caller p's current call, in the shape of its prev field
Current(p) ==
  [op |-> call[p].op, locale |-> call[p].locale, out |-> call[p].result,
   table |-> call[p].table, usedDefault |-> call[p].usedDefault, failed |-> call[p].failed]

\* a t call and a tSync call of the same caller, one right after the other,
\* for the same locale, where loadTranslations yielded the same table to both
SyncPairs ==
  {pr \in UNION {{<<Current(p), call[p].prev>>, <<call[p].prev, Current(p)>>} :
                   p \in {q \in DOMAIN call : call[q].pc = "done"}} :
     /\ pr[1].op = "tSync" /\ pr[2].op = "t"
     /\ pr[1].locale = pr[2].locale
     /\ pr[1].table = pr[2].table}

\* C5 as stated: given the table loadTranslations(locale) yields, tSync
\* returns the string t resolves to.
C5_Original == \A pr \in SyncPairs : pr[1].out = pr[2].out

\* C5 amended: tSync looks the key up in the given table only (the non-empty
\* string stored there, else the non-empty fallback, else the key); this is
\* what t resolves to unless the locale is 'ar', the table has no non-empty
\* string at the key and t returns the one it finds in the 'en' table.
C5_SyncLookup ==
  /\ \A p \in DOMAIN call :
       Returned(p, "tSync") => call[p].result.v = LookupOrFallback(call[p].table)
  /\ \A pr \in SyncPairs :
       pr[1].out # pr[2].out =>
         /\ pr[2].locale = "ar" /\ pr[2].usedDefault
         /\ LET own == Stored(pr[2].table, KeySegs)
                def == Stored(src["en"], KeySegs)
            IN  /\ ~(own.t = "string" /\ own.v # <<>>)
                /\ def.t = "string" /\ def.v # <<>> /\ pr[2].out.v = def.v

\* tSync after t on a key found in the given table: both return it
C5_Witness ==
  \E pr \in SyncPairs :
    /\ pr[1].locale = "ar" /\ argKey = <<"b", ".", "a">>
    /\ pr[1].out = Str(A1) /\ pr[2].out = Str(A1)

\* C6: loadTranslations always returns a table: the locale's own table when
\* it is cached or its import succeeds, what loadTranslations('en') gives when
\* a non-default import fails, the empty table when the import of 'en' fails.
C6_LoadResult ==
  \A p \in DOMAIN call :
    LET c == call[p]
    IN  /\ c.pc \in {"idle", "fetch", "resume", "done"}
        /\ Returned(p, "load") =>
             /\ c.result.t = "object"
             /\ Len(c.log) <= 2
             /\ c.log = <<>> => c.hit /\ c.result.v = src[c.locale]
             /\ c.log # <<>> =>
                  /\ c.log[1][1] = c.locale
                  /\ c.log[1][2] => Len(c.log) = 1 /\ c.result.v = src[c.locale]
                  /\ (~c.log[1][2] /\ c.locale = "en") =>
                       Len(c.log) = 1 /\ c.result.v = EmptyTable
                  /\ (~c.log[1][2] /\ c.locale # "en") =>
                       /\ Len(c.log) = 1 => "en" \in DOMAIN cache /\ c.result.v = src["en"]
                       /\ Len(c.log) = 2 =>
                            /\ c.log[2][1] = "en"
                            /\ c.result.v = IF c.log[2][2] THEN src["en"] ELSE EmptyTable

\* the import of 'ar' failed, then the import of 'en' succeeded
C6_Witness ==
  \E p \in DOMAIN call :
    /\ Returned(p, "load") /\ call[p].locale = "ar"
    /\ call[p].log = << <<"ar", FALSE>>, <<"en", TRUE>> >>
    /\ src["en"] # EmptyTable /\ call[p].result.v = src["en"]

\* C9: the cache only grows and an entry never changes; the entry of a
\* locale is that locale's own source; a loadTranslations that starts when
\* the entry exists returns it without importing anything.
C9_CacheWriteOnce ==
  /\ [][\A l \in DOMAIN cache : l \in DOMAIN cache' /\ cache'[l] = cache[l]]_vars
  /\ [](\A l \in DOMAIN cache : cache[l] = src[l])
  /\ [](\A p \in DOMAIN call :
          (call[p].op = "load" /\ call[p].hit) =>
            /\ call[p].log = <<>> /\ call[p].pc # "fetch"
            /\ call[p].pc = "done" => call[p].result = Obj(cache[call[p].locale]))

\* two overlapping first-time loads of 'ar' both imported it and both stored
\* it, and 'en' is cached as well
C9_Witness ==
  /\ DOMAIN cache = {"en", "ar"} /\ src["ar"] # src["en"] /\ src["ar"] # EmptyTable
  /\ \A p \in {1, 2} :
       /\ Returned(p, "load") /\ call[p].locale = "ar"
       /\ call[p].log = << <<"ar", TRUE>> >>


\* ---- toggle ----
\* the session is in a browser, in a run of toggles whose writes all succeeded
ToggledWritable == hasWindow /\ toggles.count >= 1 /\ toggles.writeOk

\* what C11 says of a run of toggles: after each toggle the stored preference
\* is the locale of the URL arrived at; the second toggle arrives at
\* normalize of the URL the run started from (same locale, same
\* locale-independent path), and no page load redirected in between
ToggleRoundTrip ==
  /\ storage = getLocaleFromPath(pathname)
  /\ toggles.count = 2 =>
       /\ toggles.between = 0 /\ autoRedirects = 0
       /\ getLocaleFromPath(pathname) = getLocaleFromPath(toggles.origin)
       /\ CurrentPathOf(pathname) = CurrentPathOf(toggles.origin)
       /\ pathname = IF getLocaleFromPath(toggles.origin) = "ar"
                     THEN ArUrl(CurrentPathOf(toggles.origin))
                     ELSE EnUrl(CurrentPathOf(toggles.origin))

\* C11 as stated: with writable storage, from an idle page at any URL U two
\* toggleLocale invocations return the browser to normalize(U) with no
\* auto-redirect in between, and after each toggle the stored preference is
\* the locale of the URL arrived at.
C11_Original == ToggledWritable => ToggleRoundTrip

\* C11 amended: the same, for every URL U whose locale-independent path does
\* not itself start with the segment 'ar' (U is not of the form /ar/ar/...);
\* getOppositeLocale is an involution on the two locales.
C11_ToggleInvolution ==
  /\ \A L \in locales : getOppositeLocale(getOppositeLocale(L)) = L
  /\ (ToggledWritable /\ ~StartsWithAr(CurrentPathOf(toggles.origin))) => ToggleRoundTrip

\* two toggles from /ar//a, through /a, settled back on /ar/a
C11_Witness ==
  /\ ToggledWritable /\ toggles.count = 2 /\ phase = "Idle"
  /\ toggles.origin = <<"/", "a", "r", "/", "/", "a">>
  /\ pathname = <<"/", "a", "r", "/", "a">>
  /\ storage = "ar"

====
